---- MODULE Spec2Model ----
(***************************************************************************)
(* Model of the chat application's core:                                   *)
(*   - the completion gateway with credential failover                     *)
(*     (src/services/geminiService.ts, sendMessageToGemini), and           *)
(*   - the session store (src/unnamed/part_000, ConfigProvider:            *)
(*     restoreSession, loginClient, loginAdmin, logout).                   *)
(* Strings are TLA+ strings; substring search is computed on them.         *)
(***************************************************************************)
EXTENDS Integers, Sequences, FiniteSets, TLC

VARIABLES
    \* ---- completion gateway (sendMessageToGemini) ----
    g_pc,        \* "idle" | "try" | "await" | "done": position of the call
    message,     \* argument: message text
    images,      \* argument: attachment list
    history,     \* argument: the prior turns of the conversation
    apiKeys,     \* argument: config.apiKeys
    svc,         \* behaviour of the completion service for the i-th request
    retryIdx,    \* argument of the running tryGenerate (0-based)
    requests,    \* requests issued to the completion service, in order
    events,      \* trace of request / response events of the call
    g_result,    \* what the call returned or threw
    \* ---- session store (ConfigProvider) ----
    users,       \* remote table `users`
    clock,       \* wall clock (what new Date() reads)
    currentUser, \* React state currentUser (User | null)
    slot,        \* localStorage['central_gpt_active_session'] (key | null)
    rs_pc,       \* restoreSession: "start" | "lookup" | "resume" | "done"
    rs_key,      \* restoreSession: savedSessionKey
    rs_user,     \* restoreSession: row returned by the lookup
    rs_now,      \* restoreSession: its local `now`
    lg_pc,       \* login call: "idle" | "lookup" | "resume"
    lg_call,     \* login call: its kind and arguments
    lg_user,     \* login call: row returned by the lookup
    lg_now,      \* login call: its local `now`
    lg_result,   \* login call: the LoginResult it returned
    lastOp,      \* name of the session operation that completed last
    \* ---- configuration mirror (ConfigProvider, fetchData effect) ----
    remoteConfig, \* remote table `app_config`: its single row
    db,          \* React state db: the local mirror
    phase,       \* the effect: "init" | "subscribing" | "subscribed" | "released"
    notifs,      \* change notifications on their way to the client
    fetches,     \* the running fetchData calls
    lastFetch,   \* how the fetchData that completed last ended
    raced,       \* some fetchData started while another was running
    lossy,       \* some read of a fetchData failed
    unnotified,  \* some remote change was made that no notification reports
    writes,      \* number of remote writes made
    \* ---- chat log (saveChatLog, fetchChatLogs, handleResetChat) ----
    chatLogs,    \* remote table `chat_logs`, in insertion order
    inserts,     \* inserts of saveChatLog on their way to the store
    fc,          \* the fetchChatLogs call
    reset,       \* the reset flow (handleResetChat)
    chatOp,      \* the saveChatLog call made last (the flag flips at each call)
    \* ---- effective configuration (ChatInterface) ----
    ec_user,     \* currentUser?.config
    ec_global,   \* db?.globalConfig
    ec_out,      \* the merged config
    \* ---- video generation (generateVeoVideo) ----
    v_pc,        \* "idle" | "try" | "issue" | "check" | "sleep" | "poll" | "done"
    v_keys,      \* argument: config.apiKeys
    v_idx,       \* tryGenerateVideo's retryIdx
    operation,   \* the job handle as last reported by the service
    v_tried,     \* retry indices for which a job was issued, in order
    v_err,       \* the error the catch clause caught last
    v_result     \* what the call returned or threw

gvars == <<g_pc, message, images, history, apiKeys, svc, retryIdx, requests, events,
          g_result>>
svars == <<users, clock, currentUser, slot, rs_pc, rs_key, rs_user, rs_now,
          lg_pc, lg_call, lg_user, lg_now, lg_result, lastOp>>
cvars == <<remoteConfig, db, phase, notifs, fetches, lastFetch, raced, lossy, unnotified,
          writes>>
hvars == <<chatLogs, inserts, fc, reset, chatOp>>
evars == <<ec_user, ec_global, ec_out>>
vvars == <<v_pc, v_keys, v_idx, operation, v_tried, v_err, v_result>>
vars == <<gvars, svars, cvars, hvars, evars, vvars>>

\* ---------------------------------------------------------------------
\* Bounds of the model
\* ---------------------------------------------------------------------
MaxKeys == 3
MaxImages == 1
MaxHistory == 2
MaxExtraHours == 0
MaxFetches == 2
MaxNotifs == 1
MaxWrites == 1
MaxApiKeys == 2
MaxLogs == 3

Null == "null"

\* ---------------------------------------------------------------------
\* Completion gateway
\* ---------------------------------------------------------------------

\* String.prototype.includes
Includes(s, sub) ==
    \E i \in 1..(Len(s) - Len(sub) + 1) : SubSeq(s, i, i + Len(sub) - 1) = sub

\* Error.prototype.toString of new Error(msg)
ErrToString(msg) == "Error: " \o msg

MsgExhausted == "All API keys exhausted."
MsgEmptyMessage == "Message cannot be empty"
MsgEmptyResponse == "Empty response"

\* the catch clause's test: quota / authorization failure
IsQuotaAuth_Only429(errText) == Includes(errText, "429")
IsQuotaAuth(errText) == Includes(errText, "429") \/ Includes(errText, "403")

\* JavaScript truthiness of a string-or-undefined value
Truthy(s) == s # Null /\ s # ""

CredentialNames == {"keyA", "keyB"}
MessageTexts == {"", "hello"}
ImagePool == {[inlineData |-> [data |-> "AAAA", mimeType |-> "image/png"]]}
ResponseTexts == {"hi"}
ServiceErrors == {"ApiError: 429 Too Many Requests",
                  "ApiError: 403 Forbidden",
                  "ApiError: 500 Internal"}

\* what ai.models.generateContent can do with one request
Outcomes ==
    [ok : {TRUE}, text : ResponseTexts \cup {"", Null}, err : {Null}]
    \cup [ok : {FALSE}, text : {Null}, err : ServiceErrors]

SeqsUpTo(S, n) == UNION {[1..k -> S] : k \in 0..n}

NoResult == [kind |-> "none", text |-> Null]

\* the prior turns a caller supplies: the first k turns of a conversation
\* in which user and model alternate
Turn(i) ==
    IF i % 2 = 1 THEN [role |-> "user", parts |-> <<[text |-> "ask"]>>]
    ELSE [role |-> "model", parts |-> <<[text |-> "answer"]>>]
Histories == {[i \in 1..k |-> Turn(i)] : k \in 0..MaxHistory}

\* history.map(msg => ({ role: msg.role, parts: msg.parts }))
FormattedContents(h) == [i \in DOMAIN h |-> [role |-> h[i].role, parts |-> h[i].parts]]

\* the contents with the current turn put first
Contents_TurnFirst(h, parts) ==
    <<[role |-> "user", parts |-> parts]>> \o FormattedContents(h)

\* formattedContents after push({ role: 'user', parts: currentParts })
Contents(h, parts) ==
    Append(FormattedContents(h), [role |-> "user", parts |-> parts])

\* currentParts as built by tryGenerate
CurrentParts(m, imgs) ==
    (IF Truthy(m) THEN <<[text |-> m]>> ELSE <<>>) \o imgs

\* throw out of tryGenerate: the promise of sendMessageToGemini rejects
Throw(errText) ==
    /\ g_pc' = "done"
    /\ g_result' = [kind |-> "error", text |-> errText]
    /\ UNCHANGED retryIdx

\* retry index used by the catch clause
NextRetryIdx_Skip(i) == i + 2
NextRetryIdx(i) == i + 1

\* catch (error): retry with the next key on 429 / 403, else rethrow
Catch(errText) ==
    IF IsQuotaAuth(errText)
    THEN /\ retryIdx' = NextRetryIdx(retryIdx)
         /\ g_pc' = "try"
         /\ UNCHANGED g_result
    ELSE Throw(errText)

\* sendMessageToGemini(message, images, history, config): return tryGenerate(0)
SendMessageToGemini ==
    /\ g_pc = "idle"
    /\ \E m \in MessageTexts, imgs \in SeqsUpTo(ImagePool, MaxImages),
          h \in Histories, keys \in SeqsUpTo(CredentialNames, MaxKeys) :
          \E s \in [1..Len(keys) -> Outcomes] :
             /\ message' = m
             /\ history' = h
             /\ images' = imgs
             /\ apiKeys' = keys
             /\ svc' = s
    /\ retryIdx' = 0
    /\ requests' = <<>>
    /\ events' = <<>>
    /\ g_result' = NoResult
    /\ g_pc' = "try"
    /\ UNCHANGED <<svars, cvars, hvars, evars, vvars>>

\* the guard at the head of tryGenerate
Exhausted_Off(idx, keys) == idx > Len(keys)
Exhausted(idx, keys) == idx >= Len(keys)

\* the check of the built turn
EmptyTurn_Never(parts) == FALSE
EmptyTurn(parts) == Len(parts) = 0

\* tryGenerate(retryIdx) up to its await of generateContent
TryGenerate ==
    /\ g_pc = "try"
    /\ IF Exhausted(retryIdx, apiKeys)
       THEN /\ Throw(ErrToString(MsgExhausted))
            /\ UNCHANGED <<requests, events>>
       ELSE LET parts == CurrentParts(message, images) IN
            IF EmptyTurn(parts)
            THEN /\ Catch(ErrToString(MsgEmptyMessage))
                 /\ UNCHANGED <<requests, events>>
            ELSE /\ requests' = Append(requests,
                        [idx |-> retryIdx,
                         key |-> IF retryIdx + 1 \in DOMAIN apiKeys
                                 THEN apiKeys[retryIdx + 1] ELSE Null,
                         parts |-> parts,
                         contents |-> Contents(history, parts)])
                 /\ events' = Append(events, [ev |-> "request", idx |-> retryIdx])
                 /\ g_pc' = "await"
                 /\ UNCHANGED <<retryIdx, g_result>>
    /\ UNCHANGED <<message, images, history, apiKeys, svc>>
    /\ UNCHANGED <<svars, cvars, hvars, evars, vvars>>

\* the test of the response payload
HasText_Defined(text) == text # Null
HasText(text) == Truthy(text)

\* tryGenerate after generateContent settles
Respond ==
    /\ g_pc = "await"
    /\ LET o == IF retryIdx + 1 \in DOMAIN svc THEN svc[retryIdx + 1]
                ELSE [ok |-> FALSE, text |-> Null, err |-> "TypeError: undefined key"] IN
       /\ events' = Append(events,
              [ev |-> IF o.ok THEN "response" ELSE "failure", idx |-> retryIdx])
       /\ IF o.ok
          THEN IF HasText(o.text)
               THEN /\ g_pc' = "done"
                    /\ g_result' = [kind |-> "text", text |-> o.text]
                    /\ UNCHANGED retryIdx
               ELSE Catch(ErrToString(MsgEmptyResponse))
          ELSE Catch(o.err)
    /\ UNCHANGED <<message, images, history, apiKeys, svc, requests>>
    /\ UNCHANGED <<svars, cvars, hvars, evars, vvars>>

\* ---------------------------------------------------------------------
\* Video generation
\* ---------------------------------------------------------------------
MsgNoVideoUri == "Failed to generate video URI"

\* setTimeout(resolve, 5000)
PollIntervalMs == 5000

NoOperation == [done |-> FALSE, uri |-> Null]

\* a job handle as the service reports it: running, or done with or
\* without a video uri
Operations ==
    {[done |-> FALSE, uri |-> Null]}
    \cup [done : {TRUE}, uri : {Null, "", "https://v/clip"}]

\* what generateVideos or getVideosOperation can do with one call
VideoOutcomes ==
    [ok : {TRUE}, op : Operations, err : {Null}]
    \cup [ok : {FALSE}, op : {NoOperation}, err : ServiceErrors]

\* throw out of tryGenerateVideo: the promise of generateVeoVideo rejects
VideoThrow(errText) ==
    /\ v_pc' = "done"
    /\ v_result' = [kind |-> "error", text |-> errText]
    /\ UNCHANGED v_idx

\* the catch clause's test of tryGenerateVideo
VideoIsQuotaAuth(errText) == Includes(errText, "429") \/ Includes(errText, "403")

\* catch (error): retry with the next key on 429 / 403, else rethrow
VideoCatch_RetriesAll(errText) ==
    /\ v_err' = errText
    /\ v_idx' = v_idx + 1
    /\ v_pc' = "try"
    /\ UNCHANGED v_result
VideoCatch(errText) ==
    /\ v_err' = errText
    /\ IF VideoIsQuotaAuth(errText)
       THEN /\ v_idx' = v_idx + 1
            /\ v_pc' = "try"
            /\ UNCHANGED v_result
       ELSE VideoThrow(errText)

\* generateVeoVideo(prompt, config): return tryGenerateVideo(0)
GenerateVeoVideo ==
    /\ v_pc = "idle"
    /\ v_keys' \in SeqsUpTo(CredentialNames, MaxKeys)
    /\ v_idx' = 0
    /\ v_pc' = "try"
    /\ UNCHANGED <<operation, v_tried, v_err, v_result>>
    /\ UNCHANGED <<gvars, svars, cvars, hvars, evars>>

\* tryGenerateVideo(retryIdx) up to its await of generateVideos
TryGenerateVideo ==
    /\ v_pc = "try"
    /\ IF v_idx >= Len(v_keys)
       THEN /\ VideoThrow(ErrToString(MsgExhausted))
            /\ UNCHANGED <<v_tried, v_err>>
       ELSE /\ v_tried' = Append(v_tried, v_idx)
            /\ v_pc' = "issue"
            /\ UNCHANGED <<v_idx, v_err, v_result>>
    /\ UNCHANGED <<v_keys, operation>>
    /\ UNCHANGED <<gvars, svars, cvars, hvars, evars>>

\* generateVideos settles: the job handle, or a failure
VideoIssued ==
    /\ v_pc = "issue"
    /\ \E o \in VideoOutcomes :
          IF o.ok
          THEN /\ operation' = o.op
               /\ v_pc' = "check"
               /\ UNCHANGED <<v_idx, v_err, v_result>>
          ELSE /\ VideoCatch(o.err)
               /\ UNCHANGED operation
    /\ UNCHANGED <<v_keys, v_tried>>
    /\ UNCHANGED <<gvars, svars, cvars, hvars, evars>>

\* the key of the attempt in `${videoUri}&key=${apiKey}`
VideoLocator(uri, key) == uri \o "&key=" \o key

\* the extraction of the video uri without the loop before it
VideoCheck_NoLoop ==
    /\ v_pc = "check"
    /\ IF ~Truthy(operation.uri)
       THEN VideoCatch(ErrToString(MsgNoVideoUri))
       ELSE /\ v_pc' = "done"
            /\ v_result' = [kind |-> "uri",
                            text |-> VideoLocator(operation.uri, v_keys[v_idx + 1])]
            /\ UNCHANGED <<v_idx, v_err>>
    /\ UNCHANGED <<v_keys, operation, v_tried>>
    /\ UNCHANGED <<gvars, svars, cvars, hvars, evars>>

\* the loop test `while (!operation.done)` and, past the loop, the
\* extraction of the video uri
VideoCheck ==
    /\ v_pc = "check"
    /\ IF ~operation.done
       THEN /\ v_pc' = "sleep"
            /\ UNCHANGED <<v_idx, v_err, v_result>>
       ELSE IF ~Truthy(operation.uri)
            THEN VideoCatch(ErrToString(MsgNoVideoUri))
            ELSE /\ v_pc' = "done"
                 /\ v_result' = [kind |-> "uri",
                                 text |-> VideoLocator(operation.uri, v_keys[v_idx + 1])]
                 /\ UNCHANGED <<v_idx, v_err>>
    /\ UNCHANGED <<v_keys, operation, v_tried>>
    /\ UNCHANGED <<gvars, svars, cvars, hvars, evars>>

\* the timer of the loop body fires after PollIntervalMs
VideoSleep ==
    /\ v_pc = "sleep"
    /\ PollIntervalMs > 0
    /\ v_pc' = "poll"
    /\ UNCHANGED <<v_keys, v_idx, operation, v_tried, v_err, v_result>>
    /\ UNCHANGED <<gvars, svars, cvars, hvars, evars>>

\* getVideosOperation settles: the job handle as it is now, or a failure
VideoPoll ==
    /\ v_pc = "poll"
    /\ \E o \in VideoOutcomes :
          IF o.ok
          THEN /\ operation' = o.op
               /\ v_pc' = "check"
               /\ UNCHANGED <<v_idx, v_err, v_result>>
          ELSE /\ VideoCatch(o.err)
               /\ UNCHANGED operation
    /\ UNCHANGED <<v_keys, v_tried>>
    /\ UNCHANGED <<gvars, svars, cvars, hvars, evars>>

\* ---------------------------------------------------------------------
\* Session store
\* ---------------------------------------------------------------------

\* 1000 * 60 * 60: milliseconds in an hour
MsPerHour == 3600000
\* the expiry threshold in hours
ExpiryHours == 200000

\* A time stamp is milliseconds since the epoch, written as whole hours
\* plus the milliseconds within the hour (0 .. MsPerHour - 1).
HourPoints == {0} \cup ((ExpiryHours - 1)..(ExpiryHours + MaxExtraHours))
MsPoints == {0, MsPerHour - 1}
TimePoints == [h : HourPoints, ms : MsPoints]

Epoch == [h |-> 0, ms |-> 0]

TimeLess(a, b) == a.h < b.h \/ (a.h = b.h /\ a.ms < b.ms)

\* now.getTime() - created.getTime(), as whole hours and the rest in ms
DiffMs(now, created) ==
    IF now.ms >= created.ms
    THEN [h |-> now.h - created.h, ms |-> now.ms - created.ms]
    ELSE [h |-> now.h - created.h - 1, ms |-> now.ms - created.ms + MsPerHour]

\* diffHours >= 200000, where diffHours = diffMs / (1000 * 60 * 60):
\* with 0 <= d.ms < MsPerHour the quotient reaches the threshold exactly
\* when the whole hours do
ReachedExpiry_Strict(d) == d.h > ExpiryHours \/ (d.h = ExpiryHours /\ d.ms > 0)
ReachedExpiry(d) == d.h >= ExpiryHours

AccessKeys == {"K-USER", "K-ADMIN", "K-LATE", "K-NONE"}
Usernames == {"alice", "root", "bob"}

\* rows the remote table `users` may hold
UserPool ==
    { [id |-> 1, username |-> "alice", access_key |-> "K-USER", role |-> "user",
       created_at |-> [h |-> 0, ms |-> 0]],
      [id |-> 2, username |-> "root", access_key |-> "K-ADMIN", role |-> "admin",
       created_at |-> [h |-> 0, ms |-> 0]],
      [id |-> 3, username |-> "bob", access_key |-> "K-LATE", role |-> "user",
       created_at |-> [h |-> 0, ms |-> MsPerHour - 1]] }

\* data = null of a query, and currentUser = null
NullRow ==
    [id |-> 0, username |-> Null, access_key |-> Null, role |-> Null,
     created_at |-> [h |-> 0, ms |-> 0]]
NullUser ==
    [id |-> 0, username |-> Null, accessKey |-> Null, role |-> Null,
     createdAt |-> [h |-> 0, ms |-> 0]]

\* .single(): the row when exactly one matches, else data = null
Single(rows) ==
    IF Cardinality(rows) = 1 THEN CHOOSE r \in rows : TRUE ELSE NullRow

\* the mapping of a row to a User
MapUser(row) ==
    [id |-> row.id, username |-> row.username, accessKey |-> row.access_key,
     role |-> row.role, createdAt |-> row.created_at]

MsgInvalidKey == "Invalid Access Key."
MsgExpired == "Access Key expired (200.000 hours)."
MsgInvalidAdmin == "Invalid Admin Credentials."

NoCall == [kind |-> "none", username |-> Null, key |-> Null]
NoLoginResult == [success |-> FALSE, message |-> Null]
Success == [success |-> TRUE, message |-> Null]
Failure(msg) == [success |-> FALSE, message |-> msg]

\* the parts of the state no session handler writes
RemoteUnchanged == UNCHANGED <<users, clock>>
RestoreUnchanged == UNCHANGED <<rs_pc, rs_key, rs_user, rs_now>>
LoginUnchanged == UNCHANGED <<lg_pc, lg_call, lg_user, lg_now, lg_result>>

\* restoreSession up to its await: read the persisted key
RestoreSessionStart ==
    /\ rs_pc = "start"
    /\ IF ~Truthy(slot)
       THEN /\ rs_pc' = "done"
            /\ lastOp' = "restoreSession"
            /\ UNCHANGED rs_key
       ELSE /\ rs_pc' = "lookup"
            /\ rs_key' = slot
            /\ UNCHANGED lastOp
    /\ UNCHANGED <<rs_user, rs_now, currentUser, slot>>
    /\ RemoteUnchanged /\ LoginUnchanged
    /\ UNCHANGED <<gvars, cvars, hvars, evars, vvars>>

\* from('users').select('*').eq('access_key', savedSessionKey).single()
\* answered by the remote store; data is null when the query fails
RestoreSessionLookup ==
    /\ rs_pc = "lookup"
    /\ \E failed \in BOOLEAN :
          rs_user' = IF failed THEN NullRow
                     ELSE Single({u \in users : u.access_key = rs_key})
    /\ rs_pc' = "resume"
    /\ UNCHANGED <<rs_key, rs_now, currentUser, slot, lastOp>>
    /\ RemoteUnchanged /\ LoginUnchanged
    /\ UNCHANGED <<gvars, cvars, hvars, evars, vvars>>

\* the expiry rule of restoreSession
RestoreExpired_NoExemption(row, now) ==
    ReachedExpiry(DiffMs(now, row.created_at))
RestoreExpired(row, now) ==
    ReachedExpiry(DiffMs(now, row.created_at)) /\ row.role # "admin"

\* restoreSession after the lookup settles
RestoreSessionResume_KeepsKey ==
    /\ rs_pc = "resume"
    /\ IF rs_user # NullRow /\ ~RestoreExpired(rs_user, clock)
       THEN currentUser' = MapUser(rs_user)
       ELSE UNCHANGED currentUser
    /\ rs_now' = IF rs_user = NullRow THEN rs_now ELSE clock
    /\ UNCHANGED slot
    /\ rs_pc' = "done"
    /\ lastOp' = "restoreSession"
    /\ UNCHANGED <<rs_key, rs_user>>
    /\ RemoteUnchanged /\ LoginUnchanged
    /\ UNCHANGED <<gvars, cvars, hvars, evars, vvars>>
\* restoreSession writing the key it read back to the slot
RestoreSessionResume_Repersists ==
    /\ rs_pc = "resume"
    /\ IF rs_user = NullRow
       THEN /\ slot' = Null
            /\ UNCHANGED <<currentUser, rs_now>>
       ELSE /\ rs_now' = clock
            /\ IF RestoreExpired(rs_user, rs_now')
               THEN /\ slot' = Null
                    /\ UNCHANGED currentUser
               ELSE /\ currentUser' = MapUser(rs_user)
                    /\ slot' = rs_key
    /\ rs_pc' = "done"
    /\ lastOp' = "restoreSession"
    /\ UNCHANGED <<rs_key, rs_user>>
    /\ RemoteUnchanged /\ LoginUnchanged
    /\ UNCHANGED <<gvars, cvars, hvars, evars, vvars>>
RestoreSessionResume ==
    /\ rs_pc = "resume"
    /\ IF rs_user = NullRow
       THEN /\ slot' = Null
            /\ UNCHANGED <<currentUser, rs_now>>
       ELSE /\ rs_now' = clock
            /\ IF RestoreExpired(rs_user, rs_now')
               THEN /\ slot' = Null
                    /\ UNCHANGED currentUser
               ELSE /\ currentUser' = MapUser(rs_user)
                    /\ UNCHANGED slot
    /\ rs_pc' = "done"
    /\ lastOp' = "restoreSession"
    /\ UNCHANGED <<rs_key, rs_user>>
    /\ RemoteUnchanged /\ LoginUnchanged
    /\ UNCHANGED <<gvars, cvars, hvars, evars, vvars>>

\* loginClient(key) up to its await
LoginClient ==
    /\ lg_pc = "idle"
    /\ \E key \in AccessKeys :
          lg_call' = [kind |-> "client", username |-> Null, key |-> key]
    /\ lg_pc' = "lookup"
    /\ lg_user' = NullRow
    /\ lg_now' = Epoch
    /\ lg_result' = NoLoginResult
    /\ UNCHANGED <<currentUser, slot, lastOp>>
    /\ RemoteUnchanged /\ RestoreUnchanged
    /\ UNCHANGED <<gvars, cvars, hvars, evars, vvars>>

\* loginAdmin(username, key) up to its await
LoginAdmin ==
    /\ lg_pc = "idle"
    /\ \E username \in Usernames, key \in AccessKeys :
          lg_call' = [kind |-> "admin", username |-> username, key |-> key]
    /\ lg_pc' = "lookup"
    /\ lg_user' = NullRow
    /\ lg_now' = Epoch
    /\ lg_result' = NoLoginResult
    /\ UNCHANGED <<currentUser, slot, lastOp>>
    /\ RemoteUnchanged /\ RestoreUnchanged
    /\ UNCHANGED <<gvars, cvars, hvars, evars, vvars>>

\* the rows the login query selects
LoginMatches(call, rows) ==
    IF call.kind = "client"
    THEN {u \in rows : u.access_key = call.key /\ u.role = "user"}
    ELSE {u \in rows : u.username = call.username /\ u.access_key = call.key
                       /\ u.role = "admin"}

\* the login query answered by the remote store; data is null when it fails
LoginLookup ==
    /\ lg_pc = "lookup"
    /\ \E failed \in BOOLEAN :
          lg_user' = IF failed THEN NullRow ELSE Single(LoginMatches(lg_call, users))
    /\ lg_pc' = "resume"
    /\ UNCHANGED <<lg_call, lg_now, lg_result, currentUser, slot, lastOp>>
    /\ RemoteUnchanged /\ RestoreUnchanged
    /\ UNCHANGED <<gvars, cvars, hvars, evars, vvars>>

\* the expiry rule of the login functions: loginClient checks, loginAdmin
\* has no check
LoginExpired(call, row, now) ==
    call.kind = "client" /\ ReachedExpiry(DiffMs(now, row.created_at))

\* a failing login: return { success: false, message }
LoginReject_Clears(msg) ==
    /\ lg_result' = Failure(msg)
    /\ currentUser' = NullUser
    /\ slot' = Null
LoginReject(msg) ==
    /\ lg_result' = Failure(msg)
    /\ UNCHANGED <<currentUser, slot>>

\* loginClient / loginAdmin after the lookup settles
LoginResume ==
    /\ lg_pc = "resume"
    /\ lg_now' = IF lg_user # NullRow /\ lg_call.kind = "client" THEN clock ELSE lg_now
    /\ IF lg_user = NullRow
       THEN LoginReject(IF lg_call.kind = "client" THEN MsgInvalidKey
                        ELSE MsgInvalidAdmin)
       ELSE IF LoginExpired(lg_call, lg_user, lg_now')
            THEN LoginReject(MsgExpired)
            ELSE /\ currentUser' = MapUser(lg_user)
                 /\ slot' = lg_call.key
                 /\ lg_result' = Success
    /\ lg_pc' = "idle"
    /\ lastOp' = IF lg_call.kind = "client" THEN "loginClient" ELSE "loginAdmin"
    /\ UNCHANGED <<lg_call, lg_user>>
    /\ RemoteUnchanged /\ RestoreUnchanged
    /\ UNCHANGED <<gvars, cvars, hvars, evars, vvars>>

\* logout()
Logout_KeepsKey ==
    /\ currentUser' = NullUser
    /\ UNCHANGED slot
    /\ lastOp' = "logout"
    /\ RemoteUnchanged /\ RestoreUnchanged /\ LoginUnchanged
    /\ UNCHANGED <<gvars, cvars, hvars, evars, vvars>>
Logout ==
    /\ currentUser' = NullUser
    /\ slot' = Null
    /\ lastOp' = "logout"
    /\ RemoteUnchanged /\ RestoreUnchanged /\ LoginUnchanged
    /\ UNCHANGED <<gvars, cvars, hvars, evars, vvars>>

\* ---------------------------------------------------------------------
\* Configuration mirror
\* ---------------------------------------------------------------------
PERSONA == "PERSONA"

DEFAULT_CONFIG ==
    [aiName |-> "CentralGPT", aiPersona |-> PERSONA, devName |-> "XdpzQ",
     apiKeys |-> <<>>, avatarUrl |-> ""]

\* useState<DatabaseSchema>({ users: [], globalConfig: DEFAULT_CONFIG })
DefaultDb == [globalConfig |-> DEFAULT_CONFIG, users |-> {}]

\* data = null of the two queries of fetchData
NullConfigRow ==
    [ai_name |-> Null, ai_persona |-> Null, dev_name |-> Null,
     api_keys |-> <<>>, avatar_url |-> Null]
NoConfigData == [ok |-> FALSE, row |-> NullConfigRow]
NoUsersData == [ok |-> FALSE, rows |-> {}]

MapConfig(data) ==
    IF data.ok
    THEN [aiName |-> data.row.ai_name,
          aiPersona |-> IF Truthy(data.row.ai_persona) THEN data.row.ai_persona
                        ELSE PERSONA,
          devName |-> data.row.dev_name,
          apiKeys |-> data.row.api_keys,
          avatarUrl |-> data.row.avatar_url]
    ELSE DEFAULT_CONFIG

\* the users built from usersData: (usersData || []).map(...)
MapUsers(data) == IF data.ok THEN {MapUser(u) : u \in data.rows} ELSE {}

Assemble(cfg, usr) == [globalConfig |-> MapConfig(cfg), users |-> MapUsers(usr)]

IdleFetch == [pc |-> "idle", cfg |-> NoConfigData, usr |-> NoUsersData]
FetchIds == 1..MaxFetches
Running == {f \in FetchIds : fetches[f].pc # "idle"}

\* a call of fetchData: it runs up to its first await
StartFetch ==
    /\ Running # FetchIds
    /\ LET f == CHOOSE g \in FetchIds \ Running :
                   \A h \in FetchIds \ Running : g <= h IN
       fetches' = [fetches EXCEPT ![f] = [IdleFetch EXCEPT !.pc = "config"]]
    /\ raced' = (raced \/ Running # {})

\* the effect: fetchData() is called, then the channel is subscribed
Activate_AwaitsFetch ==
    /\ phase = "init"
    /\ phase' = "subscribing"
    /\ db' = Assemble([ok |-> TRUE, row |-> remoteConfig], [ok |-> TRUE, rows |-> users])
    /\ lastFetch' = "ok"
    /\ UNCHANGED <<remoteConfig, notifs, fetches, raced, lossy, unnotified, writes>>
    /\ UNCHANGED <<gvars, svars, hvars, evars, vvars>>
Activate ==
    /\ phase = "init"
    /\ StartFetch
    /\ phase' = "subscribing"
    /\ UNCHANGED <<remoteConfig, db, notifs, lastFetch, lossy, unnotified, writes>>
    /\ UNCHANGED <<gvars, svars, hvars, evars, vvars>>

\* the realtime server confirms the subscription
Subscribed ==
    /\ phase = "subscribing"
    /\ phase' = "subscribed"
    /\ UNCHANGED <<remoteConfig, db, notifs, fetches, lastFetch, raced, lossy, unnotified, writes>>
    /\ UNCHANGED <<gvars, svars, hvars, evars, vvars>>

\* a postgres_changes event reaches the client: its callback is fetchData
Deliver ==
    /\ phase = "subscribed"
    /\ notifs > 0
    /\ notifs' = notifs - 1
    /\ StartFetch
    /\ UNCHANGED <<remoteConfig, db, phase, lastFetch, lossy, unnotified, writes>>
    /\ UNCHANGED <<gvars, svars, hvars, evars, vvars>>

FetchCatch(f) ==
    /\ fetches' = [fetches EXCEPT ![f] = IdleFetch]
    /\ lastFetch' = "failed"
    /\ lossy' = TRUE
    /\ UNCHANGED db

\* how a query of fetchData can end: with data, with data = null and an
\* error in the result, or by rejecting
QueryEnds == {"data", "null", "throws"}

\* from('app_config').select('*').single(), answered by the remote store
ReadConfig ==
    /\ \E f \in FetchIds, end \in QueryEnds :
          /\ fetches[f].pc = "config"
          /\ IF end = "throws"
             THEN FetchCatch(f)
             ELSE /\ fetches' = [fetches EXCEPT
                        ![f].pc = "users",
                        ![f].cfg = IF end = "data"
                                   THEN [ok |-> TRUE, row |-> remoteConfig]
                                   ELSE NoConfigData]
                  /\ lossy' = (lossy \/ end = "null")
                  /\ UNCHANGED <<db, lastFetch>>
    /\ UNCHANGED <<remoteConfig, phase, notifs, raced, unnotified, writes>>
    /\ UNCHANGED <<gvars, svars, hvars, evars, vvars>>

\* from('users').select('*'), answered by the remote store
ReadUsers ==
    /\ \E f \in FetchIds, end \in QueryEnds :
          /\ fetches[f].pc = "users"
          /\ IF end = "throws"
             THEN FetchCatch(f)
             ELSE /\ fetches' = [fetches EXCEPT
                        ![f].pc = "set",
                        ![f].usr = IF end = "data"
                                   THEN [ok |-> TRUE, rows |-> users]
                                   ELSE NoUsersData]
                  /\ lossy' = (lossy \/ end = "null")
                  /\ UNCHANGED <<db, lastFetch>>
    /\ UNCHANGED <<remoteConfig, phase, notifs, raced, unnotified, writes>>
    /\ UNCHANGED <<gvars, svars, hvars, evars, vvars>>

\* fetchData after its second await: setDb(...). Once the effect is torn
\* down the component is unmounted (React drops the update) or still
\* mounted (the update applies).
SetDb ==
    /\ \E f \in FetchIds :
          /\ fetches[f].pc = "set"
          /\ \E applied \in (IF phase = "released" THEN BOOLEAN ELSE {TRUE}) :
                db' = IF applied THEN Assemble(fetches[f].cfg, fetches[f].usr) ELSE db
          /\ lastFetch' = IF fetches[f].cfg.ok /\ fetches[f].usr.ok THEN "ok" ELSE "failed"
          /\ fetches' = [fetches EXCEPT ![f] = IdleFetch]
    /\ UNCHANGED <<remoteConfig, phase, notifs, raced, lossy, unnotified, writes>>
    /\ UNCHANGED <<gvars, svars, hvars, evars, vvars>>

\* the effect's cleanup: supabase.removeChannel(channels)
Release ==
    /\ phase \in {"subscribing", "subscribed"}
    /\ phase' = "released"
    /\ UNCHANGED <<remoteConfig, db, notifs, fetches, lastFetch, raced, lossy, unnotified, writes>>
    /\ UNCHANGED <<gvars, svars, hvars, evars, vvars>>

\* a write to `users` or `app_config` as the channel sees it: the server
\* sends a change event to an active subscription
RemoteWritten ==
    /\ phase # "init" => writes < MaxWrites
    /\ phase = "subscribed" => notifs < MaxNotifs
    /\ writes' = IF phase = "init" THEN writes ELSE writes + 1
    /\ notifs' = IF phase = "subscribed" THEN notifs + 1 ELSE notifs
    /\ unnotified' = (unnotified \/ phase = "subscribing")
    /\ UNCHANGED <<db, phase, fetches, lastFetch, raced, lossy>>

\* the Partial<AppConfig> values passed to updateGlobalConfig
NoUpdate == [aiName |-> Null, aiPersona |-> Null, devName |-> Null, avatarUrl |-> Null,
             hasKeys |-> FALSE, apiKeys |-> <<>>]
NewConfigs ==
    { [NoUpdate EXCEPT !.aiName = "Atlas"],
      [NoUpdate EXCEPT !.aiPersona = "Be terse."],
      [NoUpdate EXCEPT !.hasKeys = TRUE, !.apiKeys = <<"keyB">>] }

\* dbUpdate as built by updateGlobalConfig, applied to the row
ApplyUpdate(row, new) ==
    [ai_name |-> IF Truthy(new.aiName) THEN new.aiName ELSE row.ai_name,
     ai_persona |-> row.ai_persona,
     dev_name |-> IF Truthy(new.devName) THEN new.devName ELSE row.dev_name,
     api_keys |-> IF new.hasKeys THEN new.apiKeys ELSE row.api_keys,
     avatar_url |-> IF Truthy(new.avatarUrl) THEN new.avatarUrl ELSE row.avatar_url]

\* updateGlobalConfig(newConfig)
UpdateGlobalConfig ==
    /\ \E new \in NewConfigs : remoteConfig' = ApplyUpdate(remoteConfig, new)
    /\ RemoteWritten
    /\ UNCHANGED users
    /\ UNCHANGED <<clock, currentUser, slot, lastOp>>
    /\ RestoreUnchanged /\ LoginUnchanged
    /\ UNCHANGED <<gvars, hvars, evars, vvars>>

\* addApiKey(key): the mirror's list plus the key is written to the row
AddApiKey_Optimistic ==
    /\ Len(db.globalConfig.apiKeys) < MaxApiKeys
    /\ \E key \in CredentialNames :
          /\ remoteConfig' = [remoteConfig EXCEPT
                !.api_keys = Append(db.globalConfig.apiKeys, key)]
          /\ db' = [db EXCEPT !.globalConfig.apiKeys = Append(db.globalConfig.apiKeys, key)]
    /\ phase # "init" => writes < MaxWrites
    /\ phase = "subscribed" => notifs < MaxNotifs
    /\ writes' = IF phase = "init" THEN writes ELSE writes + 1
    /\ notifs' = IF phase = "subscribed" THEN notifs + 1 ELSE notifs
    /\ unnotified' = (unnotified \/ phase = "subscribing")
    /\ UNCHANGED <<phase, fetches, lastFetch, raced, lossy>>
    /\ UNCHANGED users
    /\ UNCHANGED <<clock, currentUser, slot, lastOp>>
    /\ RestoreUnchanged /\ LoginUnchanged
    /\ UNCHANGED <<gvars, hvars, evars, vvars>>
AddApiKey ==
    /\ Len(db.globalConfig.apiKeys) < MaxApiKeys
    /\ \E key \in CredentialNames :
          remoteConfig' = [remoteConfig EXCEPT
              !.api_keys = Append(db.globalConfig.apiKeys, key)]
    /\ RemoteWritten
    /\ UNCHANGED users
    /\ UNCHANGED <<clock, currentUser, slot, lastOp>>
    /\ RestoreUnchanged /\ LoginUnchanged
    /\ UNCHANGED <<gvars, hvars, evars, vvars>>

\* Array.prototype.filter(k => k !== keyToRemove)
RECURSIVE Without(_, _)
Without(keys, k) ==
    IF keys = <<>> THEN <<>>
    ELSE (IF Head(keys) # k THEN <<Head(keys)>> ELSE <<>>) \o Without(Tail(keys), k)

\* removeApiKey(keyToRemove): the mirror's list without the key is written
RemoveApiKey ==
    /\ \E key \in CredentialNames :
          remoteConfig' = [remoteConfig EXCEPT
              !.api_keys = Without(db.globalConfig.apiKeys, key)]
    /\ RemoteWritten
    /\ UNCHANGED users
    /\ UNCHANGED <<clock, currentUser, slot, lastOp>>
    /\ RestoreUnchanged /\ LoginUnchanged
    /\ UNCHANGED <<gvars, hvars, evars, vvars>>

\* addUser(user): insert a row into the remote table
AddUser ==
    /\ \E row \in UserPool \ users :
          /\ \A u \in users : u.access_key # row.access_key
          /\ users' = users \cup {row}
    /\ RemoteWritten
    /\ UNCHANGED remoteConfig
    /\ UNCHANGED <<clock, currentUser, slot, lastOp>>
    /\ RestoreUnchanged /\ LoginUnchanged
    /\ UNCHANGED <<gvars, hvars, evars, vvars>>

\* deleteUser(id): delete the row with that id from the remote table
DeleteUser ==
    /\ \E id \in {u.id : u \in UserPool} :
          /\ \E u \in users : u.id = id
          /\ users' = {u \in users : u.id # id}
    /\ RemoteWritten
    /\ UNCHANGED remoteConfig
    /\ UNCHANGED <<clock, currentUser, slot, lastOp>>
    /\ RestoreUnchanged /\ LoginUnchanged
    /\ UNCHANGED <<gvars, hvars, evars, vvars>>

\* the wall clock read by new Date() moves forward
Tick ==
    /\ \E t \in TimePoints : TimeLess(clock, t) /\ clock' = t
    /\ UNCHANGED <<users, currentUser, slot, lastOp>>
    /\ RestoreUnchanged /\ LoginUnchanged
    /\ UNCHANGED <<gvars, cvars, hvars, evars, vvars>>

\* ---------------------------------------------------------------------
\* Chat history log
\* ---------------------------------------------------------------------
MessageRoles == {"user", "model"}
ChatContents == {"hi"}

\* what the ConfigContext.Provider hands to its consumers
ProviderValue ==
    {"db", "currentUser", "isAdmin", "loginClient", "loginAdmin", "logout",
     "updateGlobalConfig", "addUser", "deleteUser", "addApiKey", "removeApiKey",
     "saveChatLog", "fetchChatLogs"}

NoReset == [outcome |-> "none", uid |-> 0, pending |-> FALSE]

\* the call `op` has been made (the flag tells two calls apart)
ChatDone(op) == chatOp' = [op |-> op, tick |-> ~chatOp.tick]

\* insert requests issued and not rejected
IssuedLogs == Len(chatLogs) + Cardinality(inserts)

\* saveChatLog without its guard
SaveChatLog_Unguarded ==
    /\ IssuedLogs < MaxLogs
    /\ \E role \in MessageRoles, content \in ChatContents :
          inserts' = inserts \cup
              {[n |-> CHOOSE n \in 1..MaxLogs : \A i \in inserts : i.n # n,
                user_id |-> currentUser.id, role |-> role, content |-> content,
                created_at |-> clock]}
    /\ reset' = NoReset
    /\ ChatDone("save")
    /\ UNCHANGED <<chatLogs, fc>>
    /\ UNCHANGED <<gvars, svars, cvars, evars, vvars>>

\* saveChatLog(role, content) up to its await: the insert is on its way
SaveChatLog ==
    /\ IF currentUser = NullUser
       THEN UNCHANGED <<inserts, reset>>
       ELSE /\ IssuedLogs < MaxLogs
            /\ \E role \in MessageRoles, content \in ChatContents :
                  inserts' = inserts \cup
                      {[n |-> CHOOSE n \in 1..MaxLogs : \A i \in inserts : i.n # n,
                        user_id |-> currentUser.id, role |-> role,
                        content |-> content, created_at |-> clock]}
            /\ reset' = NoReset
    /\ ChatDone("save")
    /\ UNCHANGED <<chatLogs, fc>>
    /\ UNCHANGED <<gvars, svars, cvars, evars, vvars>>

\* an insert reaches the table `chat_logs`, or the store rejects it (the
\* result of the await is not looked at)
InsertArrives ==
    /\ \E i \in inserts, ok \in BOOLEAN :
          /\ inserts' = inserts \ {i}
          /\ chatLogs' = IF ok
                         THEN Append(chatLogs,
                                     [id |-> Len(chatLogs) + 1, user_id |-> i.user_id,
                                      role |-> i.role, content |-> i.content,
                                      created_at |-> i.created_at])
                         ELSE chatLogs
    /\ UNCHANGED <<fc, reset, chatOp>>
    /\ UNCHANGED <<gvars, svars, cvars, evars, vvars>>

\* fetchChatLogs() up to its await
FetchChatLogsCall ==
    /\ fc.pc # "query"
    /\ fc' = IF currentUser = NullUser
             THEN [pc |-> "done", uid |-> 0, read |-> FALSE, result |-> <<>>,
                   afterReset |-> FALSE]
             ELSE [pc |-> "query", uid |-> currentUser.id, read |-> FALSE,
                   result |-> <<>>,
                   afterReset |-> /\ reset.outcome # "none"
                                  /\ ~reset.pending
                                  /\ reset.uid = currentUser.id]
    /\ UNCHANGED chatOp
    /\ UNCHANGED <<chatLogs, inserts, reset>>
    /\ UNCHANGED <<gvars, svars, cvars, evars, vvars>>

\* .eq('user_id', uid)
RowsOf(uid) == {chatLogs[i] : i \in {j \in DOMAIN chatLogs : chatLogs[j].user_id = uid}}

\* item => ({ id, userId, role, content, createdAt })
MapLog(item) ==
    [id |-> item.id, userId |-> item.user_id, role |-> item.role,
     content |-> item.content, createdAt |-> item.created_at]

\* .order('created_at', { ascending: true }): the rows in an order that
\* never steps back in created_at (rows of equal created_at in any order)
Ordered(rows) ==
    {s \in [1..Cardinality(rows) -> rows] :
        /\ \A i, j \in 1..Cardinality(rows) : i # j => s[i] # s[j]
        /\ \A i, j \in 1..Cardinality(rows) :
              i < j => ~TimeLess(s[j].created_at, s[i].created_at)}

\* the query of fetchChatLogs resolves: data?.map(...) || []
FetchChatLogsQuery ==
    /\ fc.pc = "query"
    /\ \E end \in {"data", "null"} :
          \E data \in (IF end = "data" THEN Ordered(RowsOf(fc.uid)) ELSE {<<>>}) :
              fc' = [fc EXCEPT !.pc = "done", !.read = TRUE,
                               !.result = [i \in DOMAIN data |-> MapLog(data[i])]]
    /\ UNCHANGED chatOp
    /\ UNCHANGED <<chatLogs, inserts, reset>>
    /\ UNCHANGED <<gvars, svars, cvars, evars, vvars>>

\* handleResetChat: the provider hands out no clearChatLogs, so the call
\* `await clearChatLogs()` throws a TypeError, which the catch clause reports
HandleResetChat ==
    /\ "clearChatLogs" \notin ProviderValue
    /\ reset' = [outcome |-> "failed", uid |-> currentUser.id, pending |-> inserts # {}]
    /\ UNCHANGED chatOp
    /\ UNCHANGED <<chatLogs, inserts, fc>>
    /\ UNCHANGED <<gvars, svars, cvars, evars, vvars>>

\* ---------------------------------------------------------------------
\* Effective configuration (ChatInterface)
\* ---------------------------------------------------------------------

\* a || b on strings
OrElse(a, b) == IF Truthy(a) THEN a ELSE b

\* the merge with the operands of || swapped
EffectiveConfig_GlobalFirst(userConfig, globalConfig) ==
    [aiName |-> OrElse(globalConfig.aiName, userConfig.aiName),
     aiPersona |-> OrElse(globalConfig.aiPersona, userConfig.aiPersona),
     devName |-> OrElse(globalConfig.devName, userConfig.devName),
     apiKeys |-> IF userConfig.hasKeys /\ Len(userConfig.apiKeys) > 0
                 THEN userConfig.apiKeys ELSE globalConfig.apiKeys]

\* const config = { ... }
EffectiveConfig(userConfig, globalConfig) ==
    [aiName |-> OrElse(userConfig.aiName, globalConfig.aiName),
     aiPersona |-> OrElse(userConfig.aiPersona, globalConfig.aiPersona),
     devName |-> OrElse(userConfig.devName, globalConfig.devName),
     apiKeys |-> IF userConfig.hasKeys /\ Len(userConfig.apiKeys) > 0
                 THEN userConfig.apiKeys ELSE globalConfig.apiKeys]

\* currentUser?.config || {}: each field absent (Null), empty or set
UserConfigs ==
    [aiName : {Null, "", "Muse"}, aiPersona : {Null, "", "Be kind."},
     devName : {Null, "", "Ada"}, hasKeys : {TRUE},
     apiKeys : SeqsUpTo({"keyU", "keyV"}, MaxApiKeys)]
    \cup
    [aiName : {Null, "", "Muse"}, aiPersona : {Null, "", "Be kind."},
     devName : {Null, "", "Ada"}, hasKeys : {FALSE}, apiKeys : {<<>>}]

\* db.globalConfig, as fetchData or DEFAULT_CONFIG leave it
GlobalConfigs ==
    [aiName : {"CentralGPT", "Nova"}, aiPersona : {PERSONA, "Be terse."},
     devName : {"XdpzQ"}, apiKeys : SeqsUpTo(CredentialNames, MaxApiKeys),
     avatarUrl : {""}]

\* a render of ChatInterface computes config
Render ==
    /\ ec_out' = EffectiveConfig(ec_user, ec_global)
    /\ UNCHANGED <<ec_user, ec_global>>
    /\ UNCHANGED <<gvars, svars, cvars, hvars, vvars>>

\* ---------------------------------------------------------------------
\* Specifications
\* ---------------------------------------------------------------------
VideoIdle ==
    /\ v_pc = "idle"
    /\ v_keys = <<>>
    /\ v_idx = 0
    /\ operation = NoOperation
    /\ v_tried = <<>>
    /\ v_err = Null
    /\ v_result = NoResult

GatewayIdle ==
    /\ g_pc = "idle"
    /\ message = ""
    /\ images = <<>>
    /\ history = <<>>
    /\ apiKeys = <<>>
    /\ svc = <<>>
    /\ retryIdx = 0
    /\ requests = <<>>
    /\ events = <<>>
    /\ g_result = NoResult

SessionFresh ==
    /\ currentUser = NullUser
    /\ rs_pc = "start"
    /\ rs_key = Null
    /\ rs_user = NullRow
    /\ rs_now = Epoch
    /\ lg_now = Epoch
    /\ lg_pc = "idle"
    /\ lg_call = NoCall
    /\ lg_user = NullRow
    /\ lg_result = NoLoginResult
    /\ lastOp = "none"

\* the remote row of `app_config` left by earlier runs
InitialConfigRow ==
    [ai_name |-> "Nova", ai_persona |-> "", dev_name |-> "XdpzQ",
     api_keys |-> <<"keyA">>, avatar_url |-> ""]

\* the mirror before the effect has run
MirrorFresh ==
    /\ db = DefaultDb
    /\ phase = "init"
    /\ notifs = 0
    /\ fetches = [f \in FetchIds |-> IdleFetch]
    /\ lastFetch = "none"
    /\ raced = FALSE
    /\ lossy = FALSE
    /\ unnotified = FALSE
    /\ writes = 0

IdleFetchChatLogs ==
    [pc |-> "idle", uid |-> 0, read |-> FALSE, result |-> <<>>, afterReset |-> FALSE]

ChatIdle ==
    /\ chatLogs = <<>>
    /\ inserts = {}
    /\ fc = IdleFetchChatLogs
    /\ reset = NoReset
    /\ chatOp = [op |-> "none", tick |-> FALSE]

NoUserConfig == [aiName |-> Null, aiPersona |-> Null, devName |-> Null,
                 hasKeys |-> FALSE, apiKeys |-> <<>>]
NoEffective == [aiName |-> Null, aiPersona |-> Null, devName |-> Null, apiKeys |-> <<>>]

ConfigIdle ==
    /\ ec_user = NoUserConfig
    /\ ec_global = DEFAULT_CONFIG
    /\ ec_out = NoEffective

\* the gateway before a call, beside a session store at rest
InitGateway ==
    /\ GatewayIdle
    /\ SessionFresh
    /\ MirrorFresh /\ remoteConfig = InitialConfigRow
    /\ ChatIdle
    /\ ConfigIdle
    /\ VideoIdle
    /\ users = {}
    /\ clock = Epoch
    /\ slot = Null

\* the provider after construction: the remote table and the persisted key
\* are whatever earlier runs left
InitSession ==
    /\ GatewayIdle
    /\ SessionFresh
    /\ MirrorFresh /\ remoteConfig = InitialConfigRow
    /\ ChatIdle
    /\ ConfigIdle
    /\ VideoIdle
    /\ users \in SUBSET UserPool
    /\ clock \in TimePoints
    /\ slot \in {Null} \cup AccessKeys

NextGateway == SendMessageToGemini \/ TryGenerate \/ Respond

NextSession ==
    \/ RestoreSessionStart \/ RestoreSessionLookup \/ RestoreSessionResume
    \/ LoginClient \/ LoginAdmin \/ LoginLookup \/ LoginResume
    \/ Logout \/ AddUser \/ DeleteUser \/ Tick

\* the provider at mount, beside a remote store holding what earlier runs
\* left
InitSync ==
    /\ GatewayIdle
    /\ SessionFresh
    /\ MirrorFresh
    /\ ChatIdle
    /\ ConfigIdle
    /\ VideoIdle
    /\ remoteConfig = InitialConfigRow
    /\ users \in {{}, {u \in UserPool : u.role = "admin"}}
    /\ clock = Epoch
    /\ slot = Null

\* the admin operations, handed out by the mounted provider
AdminWrites ==
    /\ phase # "init"
    /\ (UpdateGlobalConfig \/ AddApiKey \/ RemoveApiKey \/ AddUser \/ DeleteUser)

NextSync ==
    \/ Activate \/ Subscribed \/ Deliver \/ ReadConfig \/ ReadUsers \/ SetDb \/ Release
    \/ AdminWrites

SpecSync == InitSync /\ [][NextSync]_vars

\* the rows of `chat_logs` left by earlier runs
PriorLogs ==
    {<<>>,
     <<[id |-> 1, user_id |-> 3, role |-> "user", content |-> "hi", created_at |-> Epoch]>>}

\* the chat beside a provider whose session is established or absent, and
\* a table holding what earlier runs left
InitChat ==
    /\ GatewayIdle
    /\ rs_pc = "done" /\ rs_key = Null /\ rs_user = NullRow /\ rs_now = Epoch
    /\ lg_pc = "idle" /\ lg_call = NoCall /\ lg_user = NullRow /\ lg_now = Epoch
    /\ lg_result = NoLoginResult
    /\ lastOp = "none"
    /\ MirrorFresh /\ remoteConfig = InitialConfigRow
    /\ ConfigIdle
    /\ VideoIdle
    /\ chatLogs \in PriorLogs
    /\ inserts = {}
    /\ fc = IdleFetchChatLogs
    /\ reset = NoReset
    /\ chatOp = [op |-> "none", tick |-> FALSE]
    /\ users = {u \in UserPool : u.role = "user"}
    /\ clock = Epoch
    /\ \E u \in {NullRow} \cup users :
          /\ currentUser = MapUser(u)
          /\ slot = u.access_key

\* the clock moves within the hour
TickWithinHour == Tick /\ clock'.h = clock.h

NextChat ==
    \/ Logout \/ TickWithinHour
    \/ SaveChatLog \/ InsertArrives \/ FetchChatLogsCall \/ FetchChatLogsQuery
    \/ HandleResetChat

SpecChat == InitChat /\ [][NextChat]_vars

\* ChatInterface before its render, with any user and global configuration
InitConfig ==
    /\ GatewayIdle
    /\ SessionFresh
    /\ MirrorFresh /\ remoteConfig = InitialConfigRow
    /\ ChatIdle
    /\ users = {}
    /\ clock = Epoch
    /\ slot = Null
    /\ ec_user \in UserConfigs
    /\ ec_global \in GlobalConfigs
    /\ ec_out = NoEffective
    /\ VideoIdle

NextConfig == Render

SpecConfig == InitConfig /\ [][NextConfig]_vars

NextVideo ==
    \/ GenerateVeoVideo \/ TryGenerateVideo \/ VideoIssued \/ VideoCheck
    \/ VideoSleep \/ VideoPoll

SpecVideo == InitGateway /\ [][NextVideo]_vars

\* a started call keeps running: every request settles, every timer fires
\* and every continuation is scheduled
SpecVideoFair ==
    /\ InitGateway /\ [][NextVideo]_vars
    /\ WF_vars(TryGenerateVideo) /\ WF_vars(VideoIssued) /\ WF_vars(VideoCheck)
    /\ WF_vars(VideoSleep) /\ WF_vars(VideoPoll)

SpecGateway == InitGateway /\ [][NextGateway]_vars
SpecSession == InitSession /\ [][NextSession]_vars

\* a started call keeps running: every request settles and every
\* continuation is scheduled
SpecGatewayFair ==
    InitGateway /\ [][NextGateway]_vars /\ WF_vars(TryGenerate) /\ WF_vars(Respond)

Init == InitSession
Next == NextGateway \/ NextSession \/ NextSync \/ NextChat \/ NextConfig \/ NextVideo
Spec == Init /\ [][Next]_vars

\* ---------------------------------------------------------------------
\* Properties of the completion gateway
\* ---------------------------------------------------------------------
QuotaAuthErrors == {"ApiError: 429 Too Many Requests", "ApiError: 403 Forbidden"}
ExhaustedFailure == [kind |-> "error", text |-> "Error: All API keys exhausted."]

NumKeys == Len(apiKeys)
Called == g_pc # "idle"
TurnNonEmpty == message # "" \/ Len(images) > 0

\* the service fails the i-th request with a quota / authorization failure
FailsQuotaAuth(i) == ~svc[i].ok /\ svc[i].err \in QuotaAuthErrors
\* the service answers the i-th request with non-empty text
AnswersText(i) == svc[i].ok /\ svc[i].text \in ResponseTexts
\* the i-th request ends in a failure that is not quota / authorization
FailsHard(i) ==
    \/ svc[i].ok /\ svc[i].text \notin ResponseTexts
    \/ ~svc[i].ok /\ svc[i].err \notin QuotaAuthErrors
HardFailureText(i) ==
    IF svc[i].ok THEN "Error: Empty response" ELSE svc[i].err

\* request 0, failure 0, request 1, failure 1, ..., request n-1, <last> n-1
FailoverTrace(n, last) ==
    [k \in 1..(2 * n) |->
        [ev |-> IF k % 2 = 1 THEN "request" ELSE IF k = 2 * n THEN last ELSE "failure",
         idx |-> (k - 1) \div 2]]

IsPrefix(p, q) == Len(p) <= Len(q) /\ SubSeq(q, 1, Len(p)) = p

OnlyLastSucceeds ==
    /\ Called /\ NumKeys >= 1 /\ TurnNonEmpty
    /\ \A i \in 1..(NumKeys - 1) : FailsQuotaAuth(i)
    /\ AnswersText(NumKeys)

AllFailQuotaAuth ==
    /\ Called /\ message # ""
    /\ \A i \in 1..NumKeys : FailsQuotaAuth(i)

\* C1: when the first N-1 credentials fail with 429 / 403 and the Nth
\* answers with text, the call returns that text after exactly N requests,
\* one per credential in list order, each issued only after the failure of
\* the one before it.
C1_FailoverReturnsNth ==
    OnlyLastSucceeds =>
        /\ IsPrefix(events, FailoverTrace(NumKeys, "response"))
        /\ \A i \in 1..Len(requests) :
              requests[i].idx = i - 1 /\ requests[i].key = apiKeys[i]
        /\ g_result.kind # "error"
        /\ g_pc = "done" =>
              /\ g_result = [kind |-> "text", text |-> svc[NumKeys].text]
              /\ Len(requests) = NumKeys
              /\ events = FailoverTrace(NumKeys, "response")

C1_Witness ==
    /\ OnlyLastSucceeds /\ g_pc = "done" /\ NumKeys = 3
    /\ svc[1].err = "ApiError: 429 Too Many Requests"
    /\ svc[2].err = "ApiError: 403 Forbidden"
    /\ g_result = [kind |-> "text", text |-> "hi"]
    /\ Len(requests) = 3

\* C2: when every request fails with 429 / 403 (the message being
\* non-empty), the call ends with the failure "All API keys exhausted."
\* after exactly N requests and never returns text; with an empty list it
\* does so without a request.
C2_ExhaustionTerminates ==
    /\ [](AllFailQuotaAuth =>
            /\ g_result.kind # "text"
            /\ Len(requests) <= NumKeys
            /\ g_pc = "done" => g_result = ExhaustedFailure /\ Len(requests) = NumKeys)
    /\ (AllFailQuotaAuth ~> (g_pc = "done" /\ g_result = ExhaustedFailure))

C2_Witness ==
    /\ AllFailQuotaAuth /\ g_pc = "done" /\ NumKeys = 3
    /\ g_result = ExhaustedFailure /\ Len(requests) = 3

C2_WitnessEmptyList ==
    /\ AllFailQuotaAuth /\ g_pc = "done" /\ NumKeys = 0
    /\ g_result = ExhaustedFailure /\ requests = <<>>

\* C3: a request that succeeds without text, or fails with a failure other
\* than 429 / 403, ends the call with that failure: it is the last request
\* and the failure reported is that one, not "All API keys exhausted.".
C3_HardFailurePropagates ==
    \A i \in 1..Len(requests) :
        (FailsHard(i) /\ (i < Len(requests) \/ g_pc # "await")) =>
            /\ g_pc = "done"
            /\ Len(requests) = i
            /\ g_result = [kind |-> "error", text |-> HardFailureText(i)]
            /\ g_result # ExhaustedFailure

C3_Witness ==
    /\ g_pc = "done" /\ NumKeys = 3 /\ Len(requests) = 2
    /\ FailsQuotaAuth(1)
    /\ svc[2].ok /\ svc[2].text = ""
    /\ g_result = [kind |-> "error", text |-> "Error: Empty response"]

\* C4 (as claimed): the failure of a call on a non-empty list whose
\* credentials all failed with 429 / 403 differs from the failure of a call
\* on the empty list (which is ExhaustedFailure, see C4_SameFailure).
C4_Distinguishable ==
    (AllFailQuotaAuth /\ NumKeys >= 1 /\ g_pc = "done" /\ Len(requests) = NumKeys)
        => g_result # ExhaustedFailure

\* C4 (amended): the call on the empty list and the call on a list whose
\* credentials all failed with 429 / 403 end with the same failure value;
\* they differ only in the number of requests issued (zero, or one per
\* credential).
C4_SameFailure ==
    /\ (g_pc = "done" /\ NumKeys = 0) =>
            g_result = ExhaustedFailure /\ requests = <<>>
    /\ (g_pc = "done" /\ NumKeys >= 1 /\ AllFailQuotaAuth) =>
            g_result = ExhaustedFailure /\ Len(requests) = NumKeys

C4_Witness ==
    /\ g_pc = "done" /\ NumKeys = 2 /\ AllFailQuotaAuth
    /\ g_result = ExhaustedFailure /\ Len(requests) = 2

\* C5: with an empty message and no attachment the call is rejected and no
\* request is issued, whatever the credential list.
C5_EmptyTurnRejected ==
    (Called /\ message = "" /\ images = <<>>) =>
        /\ requests = <<>> /\ events = <<>>
        /\ g_pc \in {"try", "done"}
        /\ g_pc = "done" => g_result.kind = "error"
        /\ (g_pc = "done" /\ NumKeys >= 1) =>
              g_result.text = "Error: Message cannot be empty"

C5_Witness ==
    /\ g_pc = "done" /\ message = "" /\ images = <<>> /\ NumKeys = 2
    /\ AnswersText(1)
    /\ g_result = [kind |-> "error", text |-> "Error: Message cannot be empty"]
    /\ requests = <<>>

\* ---------------------------------------------------------------------
\* Properties of the session store
\* ---------------------------------------------------------------------
ExpiryBoundary == [h |-> ExpiryHours, ms |-> 0]
OneUnitBefore == [h |-> ExpiryHours - 1, ms |-> MsPerHour - 1]

\* the time elapsed since the row's creation, at the clock's present value,
\* is at least 200,000 hours
ElapsedReachedExpiry(row) == ~TimeLess(DiffMs(clock, row.created_at), ExpiryBoundary)

\* this step is the completion of the login call / of restoreSession
LoginCompletes == lg_pc = "resume" /\ lg_pc' = "idle"
RestoreCompletes == rs_pc = "resume" /\ rs_pc' = "done"

\* C6: a loginClient call whose lookup returned the user-role row of the
\* supplied key is rejected as expired exactly when the time elapsed since
\* the row's creation is >= 200,000 hours; otherwise it succeeds, the
\* session's user is that user and the persisted slot holds the key.
C6_ClientExpiryBoundary ==
    [][(LoginCompletes /\ lg_call.kind = "client" /\ lg_user # NullRow) =>
          /\ lg_user.access_key = lg_call.key /\ lg_user.role = "user"
          /\ (lg_result' = Failure(MsgExpired)) <=> ElapsedReachedExpiry(lg_user)
          /\ lg_result'.success <=> ~ElapsedReachedExpiry(lg_user)
          /\ lg_result'.success =>
                /\ currentUser' = MapUser(lg_user)
                /\ currentUser'.accessKey = lg_call.key
                /\ slot' = lg_call.key]_vars

\* rejected exactly at the boundary, while the session of the login made
\* one millisecond earlier is still in place
C6_Witness ==
    /\ lg_pc = "idle" /\ lg_call.kind = "client" /\ lg_user # NullRow
    /\ lg_result = Failure(MsgExpired)
    /\ DiffMs(lg_now, lg_user.created_at) = ExpiryBoundary
    /\ currentUser = MapUser(lg_user) /\ slot = lg_call.key

C6_WitnessOneUnitBefore ==
    /\ lg_pc = "idle" /\ lg_call.kind = "client" /\ lg_user # NullRow
    /\ lg_result = Success
    /\ DiffMs(lg_now, lg_user.created_at) = OneUnitBefore
    /\ currentUser = MapUser(lg_user) /\ slot = lg_call.key

\* C7: expiry never rejects an admin: a loginAdmin call whose lookup
\* returned the admin row establishes the session and persists the key, and
\* a restoreSession whose lookup returned an admin row establishes the
\* session and leaves the persisted key alone, whatever the elapsed time.
C7_AdminExempt ==
    [][/\ (LoginCompletes /\ lg_call.kind = "admin" /\ lg_user # NullRow) =>
            /\ lg_result' = Success
            /\ currentUser' = MapUser(lg_user)
            /\ slot' = lg_call.key
       /\ (RestoreCompletes /\ rs_user # NullRow /\ rs_user.role = "admin") =>
            /\ currentUser' = MapUser(rs_user)
            /\ slot' = slot]_vars

\* an admin session restored after the threshold, then an admin login
C7_Witness ==
    /\ rs_pc = "done" /\ rs_user # NullRow /\ rs_user.role = "admin"
    /\ ~TimeLess(DiffMs(rs_now, rs_user.created_at), ExpiryBoundary)
    /\ lastOp = "loginAdmin" /\ lg_result = Success
    /\ ElapsedReachedExpiry(lg_user)
    /\ currentUser = MapUser(lg_user) /\ currentUser.role = "admin"
    /\ slot = lg_call.key

\* C8: a restoreSession whose lookup finds no row, or finds a non-admin row
\* whose elapsed time is >= 200,000 hours, clears the persisted slot and
\* sets no session; it completes normally.
C8_RestoreClearsKey ==
    [][(rs_pc = "resume" /\
        (rs_user = NullRow \/
         (rs_user.role # "admin" /\ ElapsedReachedExpiry(rs_user)))) =>
          (ENABLED RestoreSessionResume) /\
          (rs_pc' # rs_pc =>
              /\ rs_pc' = "done"
              /\ slot' = Null
              /\ currentUser' = currentUser)]_vars

\* the persisted key's row is gone from the remote table
C8_Witness ==
    /\ rs_pc = "done" /\ lastOp = "restoreSession"
    /\ rs_key = "K-USER" /\ rs_user = NullRow
    /\ \A u \in users : u.access_key # rs_key
    /\ slot = Null /\ currentUser = NullUser

C8_WitnessExpired ==
    /\ rs_pc = "done" /\ lastOp = "restoreSession"
    /\ rs_user # NullRow /\ rs_user.role = "user"
    /\ DiffMs(rs_now, rs_user.created_at) = ExpiryBoundary
    /\ slot = Null /\ currentUser = NullUser

\* C9: logout can always run, and once it has run the session is absent
\* and the persisted slot is empty.
C9_LogoutClears ==
    /\ ENABLED Logout
    /\ lastOp = "logout" => (currentUser = NullUser /\ slot = Null)

\* a logout that ended an established session
C9_Witness ==
    /\ lastOp = "logout" /\ currentUser = NullUser /\ slot = Null
    /\ lg_result = Success /\ lg_pc = "idle"

\* C10: a login call whose lookup returned no row (failed or matched none),
\* or a loginClient call met by the expiry rule, returns a failure result
\* with a reason and leaves the session and the persisted slot as they are;
\* so do the steps of a login call before its completion.
C10_FailedLoginChangesNothing ==
    [][/\ (LoginCompletes /\
           (lg_user = NullRow \/
            (lg_call.kind = "client" /\ ElapsedReachedExpiry(lg_user)))) =>
            /\ ~lg_result'.success
            /\ lg_result'.message \in {MsgInvalidKey, MsgInvalidAdmin, MsgExpired}
            /\ currentUser' = currentUser
            /\ slot' = slot
       /\ (lg_pc' # lg_pc /\ ~LoginCompletes) =>
            /\ currentUser' = currentUser
            /\ slot' = slot]_vars

\* a failed lookup of an existing admin, beside an established session
C10_Witness ==
    /\ lg_pc = "idle" /\ lastOp = "loginAdmin"
    /\ lg_user = NullRow /\ lg_result = Failure(MsgInvalidAdmin)
    /\ Single(LoginMatches(lg_call, users)) # NullRow
    /\ currentUser # NullUser /\ slot = currentUser.accessKey

\* this step is a step of restoreSession
RestoreStep == rs_pc' # rs_pc

\* C18: restoreSession never writes the persisted slot: a step of it leaves
\* the slot or clears it; with an empty slot it ends at once, without a
\* lookup, changing neither session nor slot; the step that establishes the
\* session leaves the slot as it is.
C18_RestoreNeverWritesSlot ==
    [][RestoreStep =>
          /\ slot' \in {slot, Null}
          /\ (rs_pc = "start" /\ slot = Null) =>
                /\ rs_pc' = "done"
                /\ rs_user' = NullRow
                /\ currentUser' = currentUser /\ slot' = slot
          /\ currentUser' # currentUser =>
                (currentUser' # NullUser /\ slot' = slot)]_vars

\* a session established by restoreSession alone, the slot still holding
\* the key that was read
C18_Witness ==
    /\ rs_pc = "done" /\ lastOp = "restoreSession"
    /\ lg_pc = "idle" /\ lg_call = NoCall
    /\ currentUser # NullUser /\ currentUser.accessKey = rs_key
    /\ slot = rs_key

\* restoreSession that found the slot empty
C18_WitnessEmptySlot ==
    /\ rs_pc = "done" /\ lastOp = "restoreSession"
    /\ rs_key = Null /\ rs_user = NullRow
    /\ slot = Null /\ currentUser = NullUser

\* C19 (as claimed): whenever a session is active the persisted slot holds
\* the access key of its user, and right after a logout no session is
\* active.
C19_SlotHoldsSessionKey ==
    /\ currentUser # NullUser => slot = currentUser.accessKey
    /\ lastOp = "logout" => currentUser = NullUser

\* ---------------------------------------------------------------------
\* Properties of the configuration mirror
\* ---------------------------------------------------------------------

\* the content of the remote store as a mirror holds it
RemoteContent ==
    [globalConfig |->
        [aiName |-> remoteConfig.ai_name,
         aiPersona |-> IF remoteConfig.ai_persona = "" THEN PERSONA
                       ELSE remoteConfig.ai_persona,
         devName |-> remoteConfig.dev_name,
         apiKeys |-> remoteConfig.api_keys,
         avatarUrl |-> remoteConfig.avatar_url],
     users |-> {[id |-> u.id, username |-> u.username, accessKey |-> u.access_key,
                 role |-> u.role, createdAt |-> u.created_at] : u \in users}]

\* no notification is on its way and no fetchData is running
Quiescent == notifs = 0 /\ Running = {}

\* C11 (as claimed): once a fetchData has failed (a query of it rejected or
\* returned data = null), the mirror holds the default GlobalConfig and no
\* user.
C11_FailedFetchYieldsDefaults ==
    (lastFetch = "failed" /\ phase # "released") => db = DefaultDb

\* C12 (as claimed): once the subscription is released no fetchData is
\* started and the mirror does not change any more.
C12_NothingAfterRelease ==
    [][phase = "released" => (db' = db /\ Running' \subseteq Running)]_vars

\* C13 (as claimed): when the subscription is requested the initial fetch
\* has completed, and a quiescent mirror whose reads all succeeded, never
\* overlapping, has missed no change.
C13_FetchBeforeSubscribe ==
    /\ phase # "init" => lastFetch # "none"
    /\ (phase = "subscribed" /\ Quiescent /\ ~lossy /\ ~raced) => db = RemoteContent

\* C13 (amended): activation starts the initial fetch and requests the
\* subscription in one step, before that fetch has read anything; no fetch
\* runs before activation; a remote change is notified only while the
\* subscription is confirmed, so one made before that triggers no refresh.
C13_SubscribeBeforeFetchCompletes ==
    /\ [](phase = "init" => (Running = {} /\ lastFetch = "none" /\ db = DefaultDb))
    /\ [][(phase = "init" /\ phase' # "init") =>
            /\ phase' = "subscribing"
            /\ Running' = {1} /\ fetches'[1].pc = "config"
            /\ lastFetch' = "none" /\ db' = db]_vars
    /\ [][notifs' > notifs => phase = "subscribed"]_vars
    /\ [][(writes' # writes /\ phase = "subscribing") =>
            (notifs' = notifs /\ Running' = Running)]_vars

\* the subscription is confirmed and a change has been made while the
\* initial fetch has not read yet
C13_Witness ==
    /\ phase = "subscribed" /\ writes = 1 /\ notifs = 1
    /\ fetches[1].pc = "config" /\ lastFetch = "none"
    /\ db = DefaultDb

\* a change made before the confirmation, missed by the quiescent mirror
C13_WitnessMissed ==
    /\ phase = "subscribed" /\ Quiescent /\ ~lossy /\ ~raced /\ unnotified
    /\ lastFetch = "ok" /\ db # RemoteContent

\* C14: the admin operations write the remote store only: the step of one
\* leaves the mirror and the session as they are, and the mirror changes
\* only in the step that completes a fetchData.
C14_AdminWritesRemoteOnly ==
    [][/\ (writes' # writes \/ remoteConfig' # remoteConfig \/ users' # users) =>
            (db' = db /\ currentUser' = currentUser /\ slot' = slot)
       /\ db' # db =>
            \E f \in FetchIds : fetches[f].pc = "set" /\ fetches'[f].pc = "idle"]_vars

\* the key is in the remote row, the mirror has not been refreshed yet
C14_Witness ==
    /\ writes = 1 /\ notifs = 1 /\ Running = {}
    /\ remoteConfig.api_keys = <<"keyA", "keyB">>
    /\ db.globalConfig.apiKeys = <<"keyA">>

\* C20 (as claimed): with no notification on its way and no fetchData
\* running, the mirror equals the content of the remote store, whatever
\* the interleaving of the refreshes (no read having failed and every
\* change having been notified).
C20_Converges ==
    (phase = "subscribed" /\ Quiescent /\ ~lossy /\ ~unnotified) => db = RemoteContent



\* C21 (as claimed): a step of addApiKey appends its key to the list the
\* remote row holds, so that two completed calls leave both keys after the
\* credentials stored before, and a step of removeApiKey takes its key out
\* of the list the remote row holds, keeping the others in their order;
\* whatever the mirror's refreshes have done so far.
C21_KeyListUpdatesPreserve ==
    [][/\ AddApiKey =>
            \E k \in CredentialNames :
                remoteConfig'.api_keys = Append(remoteConfig.api_keys, k)
       /\ RemoveApiKey =>
            \E k \in CredentialNames :
                remoteConfig'.api_keys = Without(remoteConfig.api_keys, k)]_vars

\* ---------------------------------------------------------------------
\* Properties of the turn sequence sent
\* ---------------------------------------------------------------------

\* the current turn: the message text when there is one, then the
\* attachments
CurrentTurn ==
    [role |-> "user",
     parts |-> (IF message = "" THEN <<>> ELSE <<[text |-> message]>>) \o images]

\* C22: the contents of every request issued, the first as well as each
\* retry, are the turns of the supplied history in their order followed by
\* the current turn once, as the last entry; and the history does not
\* change while the call runs.
C22_HistoryThenCurrentTurn ==
    /\ [](\A n \in DOMAIN requests :
            LET c == requests[n].contents IN
            /\ Len(c) = Len(history) + 1
            /\ \A i \in DOMAIN history :
                  c[i].role = history[i].role /\ c[i].parts = history[i].parts
            /\ c[Len(c)] = CurrentTurn
            /\ requests[n].idx = n - 1)
    /\ [][g_pc # "idle" => history' = history]_vars

\* a retry with the second credential: both requests carry the two prior
\* turns and then the turn of text and attachment
C22_Witness ==
    /\ Len(requests) = 2 /\ Len(history) = 2
    /\ message = "hello" /\ Len(images) = 1
    /\ requests[1].key # requests[2].key
    /\ requests[2].contents = requests[1].contents
    /\ Len(requests[2].contents) = 3
    /\ Len(requests[2].contents[3].parts) = 2

\* ---------------------------------------------------------------------
\* Properties of the video generation
\* ---------------------------------------------------------------------

\* this step is the catch clause of tryGenerateVideo handling a failure
VideoCatchStep ==
    /\ v_pc \in {"issue", "check", "poll"}
    /\ v_pc' = "try" \/ (v_pc' = "done" /\ v_result'.kind = "error")

\* C23: a job reported done without a video uri ends the call at once with
\* that failure, no further credential being tried; a failure of issuing or
\* polling the job is answered by the next credential exactly when it is a
\* quota/authorization failure, and otherwise ends the call with it; the
\* credentials are tried in order and a list used up ends the call with
\* "All API keys exhausted."; an ended call does nothing more.
C23_VideoFailover ==
    /\ [][(v_pc = "check" /\ operation.done /\ operation.uri \in {Null, ""}) =>
            /\ v_pc' = "done"
            /\ v_result' = [kind |-> "error", text |-> "Error: " \o MsgNoVideoUri]
            /\ v_tried' = v_tried]_vars
    /\ [][VideoCatchStep =>
            IF v_err' \in QuotaAuthErrors
            THEN /\ v_pc \in {"issue", "poll"}
                 /\ v_pc' = "try" /\ v_idx' = v_idx + 1
                 /\ v_result' = v_result
            ELSE /\ v_pc' = "done"
                 /\ v_result' = [kind |-> "error", text |-> v_err']
                 /\ v_idx' = v_idx /\ v_tried' = v_tried]_vars
    /\ [][(v_pc = "try" /\ v_idx >= Len(v_keys)) =>
            (v_pc' = "done" /\ v_result' = ExhaustedFailure /\ v_tried' = v_tried)]_vars
    /\ [](\A n \in DOMAIN v_tried : v_tried[n] = n - 1 /\ n <= Len(v_keys))
    /\ [](v_result = ExhaustedFailure =>
            (v_idx = Len(v_keys) /\ Len(v_tried) = Len(v_keys)))
    /\ [][v_pc = "done" => UNCHANGED vvars]_vars

\* the first credential failed with a quota/authorization failure, the job
\* of the second was reported done without a uri, the third credential was
\* never tried
C23_Witness ==
    /\ v_pc = "done" /\ Len(v_keys) = 3
    /\ v_tried = <<0, 1>>
    /\ operation = [done |-> TRUE, uri |-> Null]
    /\ v_result = [kind |-> "error", text |-> "Error: Failed to generate video URI"]

\* every credential met by a quota/authorization failure
C23_WitnessExhausted ==
    /\ v_pc = "done" /\ Len(v_keys) = 2 /\ v_tried = <<0, 1>>
    /\ v_err \in QuotaAuthErrors
    /\ v_result = ExhaustedFailure

\* C24: a locator is returned only for a job reported done, and it is that
\* job's uri with the key of the attempt; while the job is reported not
\* done the call waits and polls again, without ending; the call ends only
\* with a failure or on a job reported done; a job reported done with a uri
\* leads to the return of its locator; and a running call ends unless the
\* job is reported not done again and again.
C24_PollUntilDone ==
    /\ [](v_result.kind = "uri" =>
            /\ v_pc = "done" /\ operation.done /\ operation.uri \notin {Null, ""}
            /\ v_result.text = operation.uri \o "&key=" \o v_keys[Len(v_tried)])
    /\ [][(v_pc = "check" /\ ~operation.done) =>
            (v_pc' = "sleep" /\ v_result' = v_result /\ v_idx' = v_idx)]_vars
    /\ [][v_pc = "sleep" => (v_pc' = "poll" /\ v_result' = v_result)]_vars
    /\ [][(v_pc # "done" /\ v_pc' = "done") =>
            (v_result'.kind = "error" \/ (v_pc = "check" /\ operation.done))]_vars
    /\ ((v_pc = "check" /\ operation.done /\ operation.uri = "https://v/clip")
            ~> (v_pc = "done" /\ v_result.kind = "uri"))
    /\ ((v_pc # "idle") ~> (v_pc = "done" \/ (v_pc = "check" /\ ~operation.done)))

\* a locator returned with the key of the second credential
C24_Witness ==
    /\ v_pc = "done" /\ v_tried = <<0, 1>> /\ v_keys = <<"keyA", "keyB">>
    /\ operation = [done |-> TRUE, uri |-> "https://v/clip"]
    /\ v_result = [kind |-> "uri", text |-> "https://v/clip&key=keyB"]

\* in the loop: the job reported not done, the next poll under way
C24_WitnessPolling ==
    /\ v_pc = "poll" /\ ~operation.done /\ v_result = NoResult

\* ---------------------------------------------------------------------
\* Properties of the chat history log
\* ---------------------------------------------------------------------

\* this step is a call of saveChatLog / a call of fetchChatLogs / the
\* completion of the query of fetchChatLogs
SaveStep == chatOp' # chatOp
FetchCallStep == fc.pc # "query" /\ fc' # fc
FetchQueryStep == fc.pc = "query" /\ fc'.pc = "done"

\* C15 (as claimed): a fetchChatLogs called right after the reset flow ran
\* for the same user (no insert being on its way at the reset, no
\* saveChatLog since) returns the empty sequence.
C15_ClearThenFetchEmpty ==
    (fc.pc = "done" /\ fc.afterReset) => fc.result = <<>>

\* C16: without a session saveChatLog issues no insert and fetchChatLogs
\* returns the empty sequence without reading; with a session saveChatLog
\* issues one insert owned by the active user and stamped with the clock,
\* and fetchChatLogs returns rows of the table owned by the calling user
\* only, never stepping back in creation time; the table grows only by the
\* arrival of an issued insert.
C16_ChatLogGuards ==
    [][/\ (SaveStep /\ currentUser = NullUser) =>
            (inserts' = inserts /\ chatLogs' = chatLogs)
       /\ (SaveStep /\ currentUser # NullUser) =>
            /\ chatLogs' = chatLogs
            /\ \E i \in inserts' :
                  /\ i \notin inserts
                  /\ inserts' = inserts \cup {i}
                  /\ i.user_id = currentUser.id
                  /\ i.created_at = clock
       /\ (FetchCallStep /\ currentUser = NullUser) =>
            (fc'.pc = "done" /\ fc'.result = <<>> /\ ~fc'.read)
       /\ (FetchCallStep /\ currentUser # NullUser) =>
            (fc'.pc = "query" /\ fc'.uid = currentUser.id)
       /\ FetchQueryStep =>
            /\ fc'.read
            /\ \A k \in DOMAIN fc'.result :
                  /\ fc'.result[k].userId = fc.uid
                  /\ \E j \in DOMAIN chatLogs : chatLogs[j].id = fc'.result[k].id
            /\ \A k, l \in DOMAIN fc'.result :
                  k < l => /\ fc'.result[k].id # fc'.result[l].id
                           /\ ~TimeLess(fc'.result[l].createdAt, fc'.result[k].createdAt)
       /\ chatLogs' # chatLogs =>
            \E i \in inserts :
                /\ inserts' = inserts \ {i}
                /\ Len(chatLogs') = Len(chatLogs) + 1
                /\ SubSeq(chatLogs', 1, Len(chatLogs)) = chatLogs
                /\ chatLogs'[Len(chatLogs')].user_id = i.user_id]_vars

\* a fetch that returned the two messages of the active user in the order
\* of their creation, opposite to the order of their arrival, and left out
\* the row of another user
C16_Witness ==
    /\ currentUser # NullUser /\ fc.pc = "done" /\ fc.read
    /\ fc.uid = currentUser.id
    /\ Len(fc.result) = 2
    /\ fc.result[1].id > fc.result[2].id
    /\ TimeLess(fc.result[1].createdAt, fc.result[2].createdAt)
    /\ \E j \in DOMAIN chatLogs : chatLogs[j].user_id # fc.uid

\* without a session: a save that issued nothing and a fetch that did not
\* read
C16_WitnessNoSession ==
    /\ currentUser = NullUser
    /\ chatOp.op = "save" /\ inserts = {} /\ chatLogs = <<>>
    /\ fc.pc = "done" /\ ~fc.read /\ fc.result = <<>>
\* ---------------------------------------------------------------------
\* Properties of the effective configuration
\* ---------------------------------------------------------------------

\* the user has an override of this field: it is present and not empty
HasOverride(v) == v \notin {Null, ""}

\* C17: each of aiName, aiPersona and devName of the computed config is
\* the user's override when the user has one (present and not empty) and
\* the GlobalConfig value otherwise; apiKeys is the user's list when that
\* is present and non-empty, else GlobalConfig's list, as the same sequence.
C17_EffectiveConfigMerge ==
    ec_out # NoEffective =>
        /\ HasOverride(ec_user.aiName) => ec_out.aiName = ec_user.aiName
        /\ ~HasOverride(ec_user.aiName) => ec_out.aiName = ec_global.aiName
        /\ HasOverride(ec_user.aiPersona) => ec_out.aiPersona = ec_user.aiPersona
        /\ ~HasOverride(ec_user.aiPersona) => ec_out.aiPersona = ec_global.aiPersona
        /\ HasOverride(ec_user.devName) => ec_out.devName = ec_user.devName
        /\ ~HasOverride(ec_user.devName) => ec_out.devName = ec_global.devName
        /\ (ec_user.hasKeys /\ ec_user.apiKeys # <<>>) => ec_out.apiKeys = ec_user.apiKeys
        /\ (~ec_user.hasKeys \/ ec_user.apiKeys = <<>>) =>
              ec_out.apiKeys = ec_global.apiKeys

\* one field overridden, one absent, one empty, an empty user list beside a
\* global list of two
C17_Witness ==
    /\ ec_user = [aiName |-> "Muse", aiPersona |-> Null, devName |-> "",
                  hasKeys |-> TRUE, apiKeys |-> <<>>]
    /\ ec_global.apiKeys = <<"keyB", "keyA">>
    /\ ec_out = [aiName |-> "Muse", aiPersona |-> ec_global.aiPersona,
                 devName |-> "XdpzQ", apiKeys |-> <<"keyB", "keyA">>]

\* the user's list of two chosen over the global one, in its order
C17_WitnessUserKeys ==
    /\ ec_user.hasKeys /\ ec_user.apiKeys = <<"keyV", "keyU">>
    /\ ec_global.apiKeys = <<"keyA">>
    /\ ec_out # NoEffective /\ ec_out.apiKeys = <<"keyV", "keyU">>
====
